---- MODULE Spec2Model ----
(***************************************************************************)
(* A model of the LoL SoloQ leaderboard bot (src/src/main.rs).             *)
(*                                                                         *)
(* The process holds one shared Context (the two mutex-protected Option    *)
(* ids scoreboard_channel and scoreboard_message), a redis store, and      *)
(* clients for the chat platform and the ranking provider.  Two kinds of   *)
(* tokio tasks run against it: the scheduler task spawned in main, which   *)
(* loops update_scoreboard / sleep, and one handle_event task per event    *)
(* received from the gateway.  The runtime is tokio's multi-threaded one,  *)
(* so tasks interleave at every access to shared state: each action below  *)
(* is one lock access or one outbound call together with the straight-line *)
(* code around it.                                                         *)
(***************************************************************************)
EXTENDS Integers, Sequences, FiniteSets, TLC

(* ------------------------------ bounds --------------------------------- *)

\* Number of gateway events handled in one run (one handle_event task each).
NumHandlers == 2
\* Number of chat channels the bot can be addressed in.
NumChannels == 2

(* ----------------------------- constants ------------------------------- *)

\* Option::None of an Id (Id wraps a NonZeroU64), and redis' nil reply.
None == 0
\* The task spawned by main that runs the refresh loop.
Sched == 0
\* The value handle_register stores under a summoner id.
RegisteredValue == 1

Handlers == 1..NumHandlers
Procs == {Sched} \cup Handlers
Channels == 1..NumChannels

\* The two keys of the store that hold the scoreboard location.
ReservedKeys == {"scoreboard_channel", "scoreboard_message"}
\* Summoner ids the ranking provider knows.
SummonerIds == {"s1", "s2"}
Keys == ReservedKeys \cup SummonerIds

\* Names a user may type into /register.
Names == {"alice", "bob", "ghost"}
\* What summoner_v4().get_by_summoner_name answers: the summoner's id, or
\* "" for Ok(None), no such summoner.
Resolve(name) ==
    CASE name = "alice" -> "s1"
      [] name = "bob" -> "s2"
      [] OTHER -> ""

\* Authors of a posted message: a person, another bot account, this bot.
Authors == {"user", "otherbot", "self"}
\* msg.author.bot: the author's account is flagged as a bot.
IsBot(author) == author # "user"

\* The events handle_event distinguishes.
Event(kind, name, channel, author) ==
    [kind |-> kind, name |-> name, channel |-> channel, author |-> author]
NoEvent == Event("none", "", None, "")
Events ==
    {Event("register", n, None, "") : n \in Names}
    \cup {Event("leaderboard", "", c, "") : c \in Channels}
    \cup {Event("message", "", c, a) : c \in Channels, a \in Authors}
    \cup {Event("ready", "", None, "")}

VARIABLES
    mem_channel,  \* Context.scoreboard_channel
    mem_message,  \* Context.scoreboard_message
    db,           \* the redis store: key -> value, None when the key is absent
    created,      \* the bot's messages on the chat platform: id -> channel
    pc,           \* each task's position
    ev,           \* the event each handle_event task was spawned with
    hmsg,         \* launch_scoreboard's local `message.id`
    reply,        \* the InteractionResponse handle_register returned
    acked,        \* create_response calls that succeeded, per task
    noticed,      \* update_response ("Launched the scoreboard") succeeded
    deleted,      \* delete_message calls issued, per task
    cyc,          \* update_scoreboard's locals and outcome, per task
    typed,        \* the name a user entered for /register in the chat client
    fetched,      \* the league entries the ranking provider returned
    accounts,     \* update_scoreboard's `accounts`
    rank_content, \* update_scoreboard's `rank_content`, one element per row
    ordering,     \* what compare returned for each pair of `accounts`
    stage         \* how far the data of a cycle has come, or where it panicked

\* The data a cycle works on.  The tasks' interleaving does not depend on it
\* and leaves it alone; it is followed on its own below.
dataVars == <<typed, fetched, accounts, rank_content, ordering, stage>>

vars == <<mem_channel, mem_message, db, created, pc, ev, hmsg, reply, acked,
          noticed, deleted, cyc, typed, fetched, accounts, rank_content,
          ordering, stage>>

(* ------------------------- pure helper functions ----------------------- *)

\* A guard that takes the location for armed as soon as one id is present.
DisarmedBothAbsent(ch, msg) == ch = None /\ msg = None

\* The guard of update_scoreboard: either id is absent.
Disarmed(ch, msg) == ch = None \/ msg = None

\* redis SETNX: write only when the key is absent.
SetNx(store, k, v) ==
    IF store[k] = None THEN [store EXCEPT ![k] = v] ELSE store

\* redis SET.
Set(store, k, v) == [store EXCEPT ![k] = v]

\* The keys the fetch loop of update_scoreboard queries the provider for:
\* every scanned key but the two reserved ones.
Tracked(store) == {k \in Keys : store[k] # None /\ k \notin ReservedKeys}

\* A moderation check that forgets the author's bot flag.
ShouldDeleteAnyAuthor(msgChannel, sbChannel, author) ==
    msgChannel = sbChannel

\* The condition under which the MessageCreate arm deletes the message.
ShouldDelete(msgChannel, sbChannel, author) ==
    msgChannel = sbChannel /\ ~IsBot(author)

\* A handler that answers a repeated registration with a rejection.
RegisterResponseRejectDuplicate(nxReply) ==
    IF nxReply = 1 THEN "registered" ELSE "already_registered"

\* What handle_register answers once set_nx has replied: the reply (1 when
\* the key was written, 0 when it existed) is discarded.
RegisterResponse(nxReply) == "registered"

\* The chat platform edits a message only in the channel that holds it.
MessageIn(ch, msg) == msg \in 1..Len(created) /\ created[msg] = ch

\* update_scoreboard's locals before a cycle starts.
NoCycle ==
    [passed |-> FALSE, res |-> "none", cause |-> "none", keys |-> {},
     todo |-> {}, got |-> {}, lookups |-> 0, edits |-> 0, ch |-> None]

\* An activation that sends its completion notice however the cycle ended.
AfterCycleAlwaysNotice(p, outcome) ==
    IF p = Sched
    THEN IF outcome = "ok" THEN "sleep" ELSE "panicked"
    ELSE "l_notice"

\* Where a task continues when update_scoreboard ends: the scheduler unwraps
\* the result (a panic ends its task), launch_scoreboard propagates it with ?.
AfterCycle(p, outcome) ==
    IF p = Sched
    THEN IF outcome = "ok" THEN "sleep" ELSE "panicked"
    ELSE CASE outcome = "ok" -> "l_notice"
           [] outcome = "err" -> "failed"
           [] OTHER -> "panicked"

(* ------------------------------- Init ---------------------------------- *)

\* Stores a previous run can have left behind: nothing, or a location that
\* an activation in channel 1 persisted; with or without a registered id.
BootStores ==
    {[k \in Keys |->
        CASE k = "scoreboard_channel" -> loc
          [] k = "scoreboard_message" -> loc
          [] OTHER -> IF k \in reg THEN RegisteredValue ELSE None]
     : loc \in {None, 1}, reg \in {{}, {"s2"}}}

Init ==
    /\ db \in BootStores
    /\ mem_channel = db["scoreboard_channel"]
    /\ mem_message = db["scoreboard_message"]
    /\ created = IF db["scoreboard_message"] = None THEN <<>> ELSE <<1>>
    /\ pc = [p \in Procs |-> IF p = Sched THEN "u_guard" ELSE "idle"]
    /\ ev = [h \in Handlers |-> NoEvent]
    /\ hmsg = [h \in Handlers |-> None]
    /\ reply = [h \in Handlers |-> "none"]
    /\ acked = [h \in Handlers |-> 0]
    /\ noticed = [h \in Handlers |-> FALSE]
    /\ deleted = [h \in Handlers |-> 0]
    /\ cyc = [p \in Procs |-> NoCycle]
    /\ typed = [h \in Handlers |-> ""]
    /\ fetched = <<>>
    /\ accounts = <<>>
    /\ rank_content = <<>>
    /\ ordering = <<>>
    /\ stage = "none"

(* --------------------------- update_scoreboard ------------------------- *)

\* Task p ends its cycle with `outcome` ("ok", "err" with its cause, or
\* "panic") and continues where its caller does.
EndCycle(p, c, outcome, cause) ==
    /\ cyc' = [cyc EXCEPT ![p] =
                 [c EXCEPT !.res = outcome, !.cause = cause, !.todo = {},
                           !.ch = None]]
    /\ pc' = [pc EXCEPT ![p] = AfterCycle(p, outcome)]

\* The guard: both locks are read in one expression.  Neither id ever goes
\* back to None, so reading them one after the other decides as one read of
\* both does.
Guard(p) ==
    /\ pc[p] = "u_guard"
    /\ IF Disarmed(mem_channel, mem_message)
       THEN EndCycle(p, NoCycle, "ok", "none")
       ELSE /\ cyc' = [cyc EXCEPT ![p] = [NoCycle EXCEPT !.passed = TRUE]]
            /\ pc' = [pc EXCEPT ![p] = "u_scan"]
    /\ UNCHANGED dataVars
    /\ UNCHANGED <<mem_channel, mem_message, db, created, ev, hmsg, reply,
                   acked, noticed, deleted>>

\* get_async_connection and scan: the keys of the store, or a store error.
\* The scan is taken as one snapshot of the store.
Scan(p) ==
    /\ pc[p] = "u_scan"
    /\ \E ok \in BOOLEAN :
         IF ok
         THEN /\ cyc' = [cyc EXCEPT ![p].keys = Tracked(db),
                                    ![p].todo = Tracked(db)]
              /\ pc' = [pc EXCEPT ![p] =
                          IF Tracked(db) = {} THEN "u_loc" ELSE "u_fetch"]
         ELSE EndCycle(p, cyc[p], "err", "store")
    /\ UNCHANGED dataVars
    /\ UNCHANGED <<mem_channel, mem_message, db, created, ev, hmsg, reply,
                   acked, noticed, deleted>>

\* The cycle's locals after the provider answered the lookup of key k with
\* a list of entries.
LookupDone(c, k) ==
    [c EXCEPT !.todo = @ \ {k}, !.got = @ \cup {k}, !.lookups = @ + 1]

\* A fetch loop that drops a failed lookup and goes on to the next key.
LookupSkipped(c, k) ==
    [c EXCEPT !.todo = @ \ {k}, !.lookups = @ + 1]

\* The cycle's locals after the lookup of key k failed.
LookupFailed(c, k) ==
    [c EXCEPT !.res = "err", !.cause = "provider", !.lookups = @ + 1]

\* One turn of the fetch loop: get_league_entries_for_summoner for one key.
\* The provider answers, fails, or answers with a solo-queue entry that has
\* no tier, on which entry.tier.unwrap() panics.
Fetch(p) ==
    /\ pc[p] = "u_fetch"
    /\ \E k \in cyc[p].todo, out \in {"ok", "err", "notier"} :
         LET c == CASE out = "ok" -> LookupDone(cyc[p], k)
                    [] out = "err" -> LookupFailed(cyc[p], k)
                    [] OTHER -> [cyc[p] EXCEPT !.lookups = @ + 1]
         IN  IF out = "notier"
             THEN EndCycle(p, c, "panic", "none")
             ELSE IF c.res = "err"
             THEN EndCycle(p, c, "err", c.cause)
             ELSE /\ cyc' = [cyc EXCEPT ![p] = c]
                  /\ pc' = [pc EXCEPT ![p] =
                              IF c.todo = {} THEN "u_loc" ELSE "u_fetch"]
    /\ UNCHANGED dataVars
    /\ UNCHANGED <<mem_channel, mem_message, db, created, ev, hmsg, reply,
                   acked, noticed, deleted>>

\* After the sort: the first of the two reads of the location.
ReadLoc(p) ==
    /\ pc[p] = "u_loc"
    /\ cyc' = [cyc EXCEPT ![p].ch = mem_channel]
    /\ pc' = [pc EXCEPT ![p] = "u_edit"]
    /\ UNCHANGED dataVars
    /\ UNCHANGED <<mem_channel, mem_message, db, created, ev, hmsg, reply,
                   acked, noticed, deleted>>

\* The second read, the rendering and the update_message call.  The chat
\* platform refuses a message that is not in the channel; any call can fail.
\* The call has no effect another task reads, so it is placed at the read.
\* (The embed's validate() cannot fail: at most 10 rows of bounded width.)
Edit(p) ==
    /\ pc[p] = "u_edit"
    /\ LET c == [cyc[p] EXCEPT !.edits = @ + 1]
       IN  IF cyc[p].ch = None \/ mem_message = None
           THEN EndCycle(p, cyc[p], "panic", "none")
           ELSE \E ok \in BOOLEAN :
                  IF ok /\ MessageIn(cyc[p].ch, mem_message)
                  THEN EndCycle(p, c, "ok", "none")
                  ELSE EndCycle(p, c, "err", "chat")
    /\ UNCHANGED dataVars
    /\ UNCHANGED <<mem_channel, mem_message, db, created, ev, hmsg, reply,
                   acked, noticed, deleted>>

(* ------------------------------ scheduler ------------------------------ *)

\* The sleep of the scheduler's loop ends and the next cycle starts.
Wake ==
    /\ pc[Sched] = "sleep"
    /\ pc' = [pc EXCEPT ![Sched] = "u_guard"]
    /\ cyc' = [cyc EXCEPT ![Sched] = NoCycle]
    /\ UNCHANGED dataVars
    /\ UNCHANGED <<mem_channel, mem_message, db, created, ev, hmsg, reply,
                   acked, noticed, deleted>>

(* ------------------------------ handle_event --------------------------- *)

\* Where handle_event starts for an event of each kind.
FirstStep(kind) ==
    CASE kind = "register" -> "r_lookup"
      [] kind = "leaderboard" -> "l_ack"
      [] kind = "message" -> "m_check"
      [] OTHER -> "done"

\* main's loop receives the next event and spawns its task.
Spawn(h) ==
    /\ pc[h] = "idle"
    /\ \A g \in Handlers : g < h => pc[g] # "idle"
    /\ \E e \in Events :
         /\ ev' = [ev EXCEPT ![h] = e]
         /\ pc' = [pc EXCEPT ![h] = FirstStep(e.kind)]
    /\ UNCHANGED dataVars
    /\ UNCHANGED <<mem_channel, mem_message, db, created, hmsg, reply, acked,
                   noticed, deleted, cyc>>

(* register *)

\* handle_register up to the name's resolution: found, not found, or a
\* transport failure, on which expect() panics.
RegLookup(h) ==
    /\ pc[h] = "r_lookup"
    /\ \E ok \in BOOLEAN :
         IF ~ok
         THEN /\ pc' = [pc EXCEPT ![h] = "panicked"]
              /\ UNCHANGED reply
         ELSE IF Resolve(ev[h].name) = ""
         THEN /\ reply' = [reply EXCEPT ![h] = "invalid_summoner"]
              /\ pc' = [pc EXCEPT ![h] = "r_respond"]
         ELSE /\ pc' = [pc EXCEPT ![h] = "r_store"]
              /\ UNCHANGED reply
    /\ UNCHANGED dataVars
    /\ UNCHANGED <<mem_channel, mem_message, db, created, ev, hmsg, acked,
                   noticed, deleted, cyc>>

\* get_async_connection and set_nx, both unwrapped.
RegStore(h) ==
    /\ pc[h] = "r_store"
    /\ \E ok \in BOOLEAN :
         IF ok
         THEN LET id == Resolve(ev[h].name)
                  nxReply == IF db[id] = None THEN 1 ELSE 0
              IN  /\ db' = SetNx(db, id, RegisteredValue)
                  /\ reply' = [reply EXCEPT ![h] = RegisterResponse(nxReply)]
                  /\ pc' = [pc EXCEPT ![h] = "r_respond"]
         ELSE /\ pc' = [pc EXCEPT ![h] = "panicked"]
              /\ UNCHANGED <<db, reply>>
    /\ UNCHANGED dataVars
    /\ UNCHANGED <<mem_channel, mem_message, created, ev, hmsg, acked,
                   noticed, deleted, cyc>>

\* create_response with what handle_register returned.
RegRespond(h) ==
    /\ pc[h] = "r_respond"
    /\ \E ok \in BOOLEAN :
         IF ok
         THEN /\ acked' = [acked EXCEPT ![h] = @ + 1]
              /\ pc' = [pc EXCEPT ![h] = "done"]
         ELSE /\ pc' = [pc EXCEPT ![h] = "failed"]
              /\ UNCHANGED acked
    /\ UNCHANGED dataVars
    /\ UNCHANGED <<mem_channel, mem_message, db, created, ev, hmsg, reply,
                   noticed, deleted, cyc>>

(* leaderboard *)

\* The deferred acknowledgment.
LbAck(h) ==
    /\ pc[h] = "l_ack"
    /\ \E ok \in BOOLEAN :
         IF ok
         THEN /\ acked' = [acked EXCEPT ![h] = @ + 1]
              /\ pc' = [pc EXCEPT ![h] = "l_dbchan"]
         ELSE /\ pc' = [pc EXCEPT ![h] = "failed"]
              /\ UNCHANGED acked
    /\ UNCHANGED dataVars
    /\ UNCHANGED <<mem_channel, mem_message, db, created, ev, hmsg, reply,
                   noticed, deleted, cyc>>

\* Persist the invoking channel: a connection error is returned, a failed
\* set is unwrapped.
LbStoreChannel(h) ==
    /\ pc[h] = "l_dbchan"
    /\ \E out \in {"ok", "conn_err", "set_err"} :
         CASE out = "ok" ->
                /\ db' = Set(db, "scoreboard_channel", ev[h].channel)
                /\ pc' = [pc EXCEPT ![h] = "l_memchan"]
           [] out = "conn_err" ->
                /\ pc' = [pc EXCEPT ![h] = "failed"]
                /\ UNCHANGED db
           [] OTHER ->
                /\ pc' = [pc EXCEPT ![h] = "panicked"]
                /\ UNCHANGED db
    /\ UNCHANGED dataVars
    /\ UNCHANGED <<mem_channel, mem_message, created, ev, hmsg, reply, acked,
                   noticed, deleted, cyc>>

\* *scoreboard = Some(channel) under the channel's lock.
LbSetChannel(h) ==
    /\ pc[h] = "l_memchan"
    /\ mem_channel' = ev[h].channel
    /\ pc' = [pc EXCEPT ![h] = "l_create"]
    /\ UNCHANGED dataVars
    /\ UNCHANGED <<mem_message, db, created, ev, hmsg, reply, acked, noticed,
                   deleted, cyc>>

\* launch_scoreboard reads the channel back from the Context and creates the
\* "Loading..." message there.  The only effect of the call another task can
\* see is which id the message gets, so it is placed at the read.
LbCreate(h) ==
    /\ pc[h] = "l_create"
    /\ \E ok \in BOOLEAN :
         IF ok
         THEN /\ created' = Append(created, mem_channel)
              /\ hmsg' = [hmsg EXCEPT ![h] = Len(created) + 1]
              /\ pc' = [pc EXCEPT ![h] = "l_memmsg"]
         ELSE /\ pc' = [pc EXCEPT ![h] = "failed"]
              /\ UNCHANGED <<created, hmsg>>
    /\ UNCHANGED dataVars
    /\ UNCHANGED <<mem_channel, mem_message, db, ev, reply, acked, noticed,
                   deleted, cyc>>

\* *scoreboard = Some(message.id) under the message's lock.
LbSetMessage(h) ==
    /\ pc[h] = "l_memmsg"
    /\ mem_message' = hmsg[h]
    /\ pc' = [pc EXCEPT ![h] = "l_dbmsg"]
    /\ UNCHANGED dataVars
    /\ UNCHANGED <<mem_channel, db, created, ev, hmsg, reply, acked, noticed,
                   deleted, cyc>>

\* Persist the message id, then call update_scoreboard.
LbStoreMessage(h) ==
    /\ pc[h] = "l_dbmsg"
    /\ \E out \in {"ok", "conn_err", "set_err"} :
         CASE out = "ok" ->
                /\ db' = Set(db, "scoreboard_message", hmsg[h])
                /\ pc' = [pc EXCEPT ![h] = "u_guard"]
           [] out = "conn_err" ->
                /\ pc' = [pc EXCEPT ![h] = "failed"]
                /\ UNCHANGED db
           [] OTHER ->
                /\ pc' = [pc EXCEPT ![h] = "panicked"]
                /\ UNCHANGED db
    /\ UNCHANGED dataVars
    /\ UNCHANGED <<mem_channel, mem_message, created, ev, hmsg, reply, acked,
                   noticed, deleted, cyc>>

\* update_response: "Launched the scoreboard".
LbNotice(h) ==
    /\ pc[h] = "l_notice"
    /\ \E ok \in BOOLEAN :
         IF ok
         THEN /\ noticed' = [noticed EXCEPT ![h] = TRUE]
              /\ pc' = [pc EXCEPT ![h] = "done"]
         ELSE /\ pc' = [pc EXCEPT ![h] = "failed"]
              /\ UNCHANGED noticed
    /\ UNCHANGED dataVars
    /\ UNCHANGED <<mem_channel, mem_message, db, created, ev, hmsg, reply,
                   acked, deleted, cyc>>

(* message posted *)

\* The MessageCreate arm: the channel's Option is unwrapped, and the message
\* is deleted when ShouldDelete says so.
MsgCheck(h) ==
    /\ pc[h] = "m_check"
    /\ IF mem_channel = None
       THEN /\ pc' = [pc EXCEPT ![h] = "panicked"]
            /\ UNCHANGED deleted
       ELSE IF ShouldDelete(ev[h].channel, mem_channel, ev[h].author)
       THEN /\ deleted' = [deleted EXCEPT ![h] = @ + 1]
            /\ \E ok \in BOOLEAN :
                 pc' = [pc EXCEPT ![h] = IF ok THEN "done" ELSE "failed"]
       ELSE /\ pc' = [pc EXCEPT ![h] = "done"]
            /\ UNCHANGED deleted
    /\ UNCHANGED dataVars
    /\ UNCHANGED <<mem_channel, mem_message, db, created, ev, hmsg, reply,
                   acked, noticed, cyc>>

(* ---------------------------- specification ---------------------------- *)

Next ==
    \/ Wake
    \/ \E p \in Procs : Guard(p)
    \/ \E p \in Procs : Scan(p)
    \/ \E p \in Procs : Fetch(p)
    \/ \E p \in Procs : ReadLoc(p)
    \/ \E p \in Procs : Edit(p)
    \/ \E h \in Handlers : Spawn(h)
    \/ \E h \in Handlers : RegLookup(h)
    \/ \E h \in Handlers : RegStore(h)
    \/ \E h \in Handlers : RegRespond(h)
    \/ \E h \in Handlers : LbAck(h)
    \/ \E h \in Handlers : LbStoreChannel(h)
    \/ \E h \in Handlers : LbSetChannel(h)
    \/ \E h \in Handlers : LbCreate(h)
    \/ \E h \in Handlers : LbSetMessage(h)
    \/ \E h \in Handlers : LbStoreMessage(h)
    \/ \E h \in Handlers : LbNotice(h)
    \/ \E h \in Handlers : MsgCheck(h)

Spec == Init /\ [][Next]_vars

(* ------------------------------- claims -------------------------------- *)

\* A task is inside a refresh cycle: past the guard, before the cycle ends.
InCycle(p) == pc[p] \in {"u_scan", "u_fetch", "u_loc", "u_edit"}

\* C1: arming is atomic for readers: a step that changes the in-memory
\* channel also sets the in-memory message, to a new id, so that no reader
\* sees the new channel with an absent or an older message id.
C1_PairChangesInOneStep ==
    [][mem_channel' # mem_channel =>
         (mem_message' # None /\ mem_message' # mem_message)]_vars

\* C2: when two activations, the first on one channel and the second on
\* another, have both finished, the in-memory location is the second one's
\* channel and the message the second one created.
C2_SecondActivationWins ==
    \A h1, h2 \in Handlers :
      (/\ h1 < h2
       /\ ev[h1].kind = "leaderboard" /\ ev[h2].kind = "leaderboard"
       /\ ev[h1].channel # ev[h2].channel
       /\ pc[h1] = "done" /\ pc[h2] = "done")
      => (mem_channel = ev[h2].channel /\ mem_message = hmsg[h2])

\* C3: a refresh cycle whose guard runs while the channel id or the message
\* id is absent ends in that step with success, having made no lookup, no
\* edit and no other outbound call.
C3_DisarmedCycleIsNoOp ==
    [][\A p \in Procs :
         (/\ pc[p] = "u_guard" /\ pc'[p] # "u_guard"
          /\ (mem_channel = None \/ mem_message = None))
         => (/\ pc'[p] = (IF p = Sched THEN "sleep" ELSE "l_notice")
             /\ cyc'[p].res = "ok" /\ ~cyc'[p].passed
             /\ cyc'[p].lookups = 0 /\ cyc'[p].edits = 0
             /\ created' = created /\ db' = db)]_vars

\* The scheduler's cycle ended as a no-op while the channel was set and the
\* message id was still absent.
C3_Witness ==
    /\ pc[Sched] = "sleep"
    /\ cyc[Sched].res = "ok" /\ ~cyc[Sched].passed
    /\ mem_channel # None /\ mem_message = None

\* C4: a cycle that passed the guard and returned success issued exactly one
\* edit, after every scanned key was fetched; a cycle that returned a store
\* or provider error issued none; no cycle issues an edit before its fetch
\* loop is complete, or more than one.
C4_OneEditPerSuccessfulCycle ==
    \A p \in Procs :
      /\ (cyc[p].passed /\ cyc[p].res = "ok") =>
           (cyc[p].edits = 1 /\ cyc[p].got = cyc[p].keys)
      /\ (cyc[p].res = "err" /\ cyc[p].cause \in {"store", "provider"}) =>
           cyc[p].edits = 0
      /\ (cyc[p].res = "none" /\ InCycle(p)) => cyc[p].edits = 0
      /\ cyc[p].edits > 0 => (cyc[p].edits = 1 /\ cyc[p].got = cyc[p].keys)

\* One cycle succeeded with a registered key fetched and its edit issued,
\* another ended with a provider error and no edit.
C4_Witness ==
    \E p, q \in Procs :
      /\ cyc[p].passed /\ cyc[p].res = "ok" /\ cyc[p].keys # {}
      /\ cyc[p].edits = 1
      /\ cyc[q].res = "err" /\ cyc[q].cause = "provider" /\ cyc[q].edits = 0

\* C5: at most one task is inside a refresh cycle at any time.
C5_SingleFlight ==
    Cardinality({p \in Procs : InCycle(p)}) <= 1

\* C6: after a scheduled cycle ended with an error the scheduler task is
\* still alive.
C6_SchedulerSurvivesError ==
    cyc[Sched].res = "err" => pc[Sched] # "panicked"

\* C7: a message-posted event handled while the scoreboard channel is unset
\* is a no-op: the task does not panic and issues no delete.
C7_UnsetChannelIsNoOp ==
    \A h \in Handlers :
      (ev[h].kind = "message" /\ mem_channel = None) =>
        (pc[h] \in {"m_check", "done"} /\ deleted[h] = 0)

\* C8 as stated: handling a message-posted event issues a delete if and only
\* if the message's channel is the scoreboard channel and the author is not
\* this bot.
C8_DeleteUnlessSelf ==
    [][\A h \in Handlers :
         (pc[h] = "m_check" /\ pc'[h] # "m_check") =>
           ((deleted'[h] = 1) <=>
              (ev[h].channel = mem_channel /\ ev[h].author # "self"))]_vars

\* C8 as amended: handling a message-posted event issues a delete (one) if
\* and only if the message's channel is the scoreboard channel and the
\* author's account is not flagged as a bot.
C8_DeleteUnlessBot ==
    [][\A h \in Handlers :
         (pc[h] = "m_check" /\ pc'[h] # "m_check") =>
           /\ deleted'[h] \in {0, 1}
           /\ (deleted'[h] = 1) <=>
                (ev[h].channel = mem_channel /\ ~IsBot(ev[h].author))]_vars

\* A person's message in the scoreboard channel was deleted, and another
\* bot's message in the scoreboard channel was handled and left alone.
C8_Witness ==
    \E h, g \in Handlers :
      /\ ev[h].kind = "message" /\ ev[h].author = "user" /\ deleted[h] = 1
      /\ ev[g].kind = "message" /\ ev[g].author = "otherbot"
      /\ ev[g].channel = mem_channel /\ pc[g] = "done" /\ deleted[g] = 0

\* C9: whenever the store answers a registration, first or repeated, the id
\* then has its one record, every other key of the store is as it was, and
\* the task goes on to answer with the success response.
C9_RegisterIsIdempotent ==
    [][\A h \in Handlers :
         (pc[h] = "r_store" /\ pc'[h] \notin {"r_store", "panicked"}) =>
           LET id == Resolve(ev[h].name)
           IN  /\ db'[id] = RegisteredValue
               /\ \A k \in Keys \ {id} : db'[k] = db[k]
               /\ reply'[h] = "registered"
               /\ pc'[h] = "r_respond"]_vars

\* Two tasks registered the same id, both were answered with success, and
\* the store holds the id's record.
C9_Witness ==
    \E h, g \in Handlers :
      /\ h # g
      /\ ev[h].kind = "register" /\ ev[g].kind = "register"
      /\ Resolve(ev[h].name) = Resolve(ev[g].name)
      /\ pc[h] = "done" /\ pc[g] = "done"
      /\ reply[h] = "registered" /\ reply[g] = "registered"
      /\ acked[h] = 1 /\ acked[g] = 1
      /\ db[Resolve(ev[h].name)] = RegisteredValue

\* C10: a register interaction whose task has ended, by returning or by a
\* panic, has received exactly one response.
C10_RegisterAlwaysAnswered ==
    \A h \in Handlers :
      (ev[h].kind = "register" /\ pc[h] \in {"done", "panicked"}) =>
        acked[h] = 1

\* C12: a failed provider lookup for one key does not end the cycle: no
\* cycle returns the lookup's error to its caller.
C12_LookupFailureDoesNotAbort ==
    \A p \in Procs : ~(cyc[p].res = "err" /\ cyc[p].cause = "provider")

\* C13: whenever every activation that was started has completed, the stored
\* scoreboard_channel and scoreboard_message equal the in-memory ids.
C13_StoreMatchesMemory ==
    (\A h \in Handlers : ev[h].kind = "leaderboard" => pc[h] = "done")
    => (/\ db["scoreboard_channel"] = mem_channel
        /\ db["scoreboard_message"] = mem_message)

\* C14: an activation goes through its steps in order: the deferred
\* acknowledgment, then the channel persisted, then the message created,
\* then one refresh cycle run to its end, then the completion notice; the
\* notice is sent only after that cycle succeeded, and never by a task that
\* failed in arming or in the cycle.
C14_ActivationStepsInOrder ==
    \A h \in Handlers :
      ev[h].kind = "leaderboard" =>
        /\ pc[h] \in {"l_dbchan", "l_memchan", "l_create"} =>
             (acked[h] = 1 /\ hmsg[h] = None /\ cyc[h] = NoCycle)
        /\ pc[h] \in {"l_memchan", "l_create"} =>
             db["scoreboard_channel"] # None
        /\ hmsg[h] # None =>
             (acked[h] = 1 /\ db["scoreboard_channel"] # None
              /\ mem_channel # None /\ hmsg[h] \in 1..Len(created))
        /\ (pc[h] = "u_guard" \/ InCycle(h) \/ cyc[h] # NoCycle) =>
             (hmsg[h] # None /\ db["scoreboard_message"] # None)
        /\ (pc[h] = "u_guard" \/ InCycle(h)) => ~noticed[h]
        /\ pc[h] = "l_notice" =>
             (cyc[h].res = "ok" /\ cyc[h].passed /\ cyc[h].edits = 1
              /\ ~noticed[h])
        /\ noticed[h] =>
             (pc[h] = "done" /\ cyc[h].res = "ok" /\ cyc[h].passed
              /\ cyc[h].edits = 1 /\ acked[h] = 1 /\ hmsg[h] # None)
        /\ pc[h] \in {"failed", "panicked"} => ~noticed[h]

\* One activation sent its notice after a successful cycle, and another
\* whose cycle ended with an error sent none.
C14_Witness ==
    \E h, g \in Handlers :
      /\ ev[h].kind = "leaderboard" /\ noticed[h] /\ pc[h] = "done"
      /\ cyc[h].edits = 1
      /\ ev[g].kind = "leaderboard" /\ pc[g] = "failed"
      /\ cyc[g].res = "err" /\ ~noticed[g]

\* C18: a cycle that got the store's keys and has ended made exactly one
\* lookup for every key but the two reserved ones.
C18_OneLookupPerTrackedKey ==
    \A p \in Procs :
      (cyc[p].passed /\ cyc[p].res # "none" /\ cyc[p].cause # "store") =>
        (cyc[p].lookups = Cardinality(cyc[p].keys)
         /\ cyc[p].keys \cap ReservedKeys = {})

\* C20: an activation creates its message in the channel its command was
\* invoked in, and a refresh cycle issues its edit for a message id only in
\* the channel that message was created in.
C20_CallsAddressedConsistently ==
    [][\A p \in Procs :
         /\ (p \in Handlers /\ pc[p] = "l_create" /\ created' # created) =>
              created'[Len(created')] = ev[p].channel
         /\ (pc[p] = "u_edit" /\ cyc'[p].edits = cyc[p].edits + 1) =>
              MessageIn(cyc[p].ch, mem_message)]_vars

(* ----------------------- /register in the chat client ------------------ *)

\* min_length and max_length of the `name` option of /register.
MinLength == 3
MaxLength == 16

\* What a user may enter for `name`: the names above, one that is too short,
\* one of the greatest length allowed and one that is too long.
TypedNames == Names \cup {"ab", "sixteen_chars_ok", "seventeen_chars_x"}

\* The number of characters of a name.
NameLen(name) ==
    CASE name = "ab" -> 2
      [] name = "bob" -> 3
      [] name = "alice" -> 5
      [] name = "ghost" -> 5
      [] name = "sixteen_chars_ok" -> 16
      [] name = "seventeen_chars_x" -> 17

\* A command schema that bounds the name's length from above only.
SchemaAcceptsMaxOnly(name) == NameLen(name) <= MaxLength

\* The schema main registers for /register: the chat platform delivers the
\* command only when the name's length is within the option's bounds.
SchemaAccepts(name) ==
    NameLen(name) >= MinLength /\ NameLen(name) <= MaxLength

\* A user submits /register: the chat platform checks the entered name
\* against the registered schema and either refuses it in the client, so that
\* no event reaches the bot, or delivers the InteractionCreate event, for
\* which main spawns handle_event.  handle_register checks only that the
\* option is there and is a string, which holds for every delivered command.
Submit(h) ==
    /\ pc[h] = "idle"
    /\ \E name \in TypedNames :
         /\ typed' = [typed EXCEPT ![h] = name]
         /\ IF SchemaAccepts(name)
            THEN /\ ev' = [ev EXCEPT ![h] = Event("register", name, None, "")]
                 /\ pc' = [pc EXCEPT ![h] = FirstStep("register")]
            ELSE /\ pc' = [pc EXCEPT ![h] = "refused"]
                 /\ UNCHANGED ev
    /\ UNCHANGED <<fetched, accounts, rank_content, ordering, stage>>
    /\ UNCHANGED <<mem_channel, mem_message, db, created, hmsg, reply, acked,
                   noticed, deleted, cyc>>

NextRegister ==
    \E h \in Handlers :
      \/ Submit(h)
      \/ RegLookup(h)
      \/ RegStore(h)
      \/ RegRespond(h)

\* Users submitting /register, each command handled by its own task.
SpecRegister == Init /\ [][NextRegister]_vars

\* C11 as stated: a /register whose name is shorter than 3 characters is
\* rejected by the handler: handle_register runs for it and returns a
\* rejection, without a provider call and without a write to the registry.
C11_HandlerRejectsShortName ==
    \A h \in Handlers :
      (typed[h] # "" /\ NameLen(typed[h]) < MinLength) =>
        (ev[h].kind = "register" /\ reply[h] \in {"invalid_username",
                                                  "invalid_summoner"})

\* C11: a /register whose name is shorter than 3 characters is refused by the
\* chat platform under the registered schema: no event reaches the bot, so
\* handle_register does not run, the provider is not called, the registry is
\* not written and no response is sent.
C11_SchemaRefusesShortName ==
    [][\A h \in Handlers :
         (pc[h] = "idle" /\ typed'[h] # "" /\ NameLen(typed'[h]) < MinLength) =>
           (/\ pc'[h] = "refused"
            /\ ev'[h] = NoEvent
            /\ db' = db
            /\ reply'[h] = "none" /\ acked'[h] = 0)
       /\ (pc[h] = "refused" => pc'[h] = "refused" /\ ev'[h] = NoEvent
                                /\ reply'[h] = "none" /\ acked'[h] = 0)]_vars

C11_Witness ==
    \E h, g \in Handlers :
      /\ typed[h] = "ab" /\ pc[h] = "refused" /\ ev[h] = NoEvent
      /\ typed[g] = "bob" /\ pc[g] = "done" /\ reply[g] = "registered"

(* ------------------------------ the win rate --------------------------- *)

\* Greatest number of wins, and of losses, of an entry.
MaxGames == 29

\* An f64's significand has 53 bits: its leading bit and four limbs of 13.
LimbBits == 13
Limbs == 4
Base == 2 ^ LimbBits
Significand == 1 + Limbs * LimbBits

\* The number of doublings that bring n up to at least t (n > 0).
RECURSIVE Normalise(_, _)
Normalise(n, t) == IF n >= t THEN 0 ELSE 1 + Normalise(2 * n, t)

\* The number of bits of n > 0.
RECURSIVE BitLen(_)
BitLen(n) == IF n < 2 THEN 1 ELSE 1 + BitLen(n \div 2)

\* A percentage computed in integers: wins * 100 / (wins + losses).
WinRateExact(wins, losses) ==
    IF wins + losses = 0 THEN 0 ELSE (wins * 100) \div (wins + losses)

\* Long division: the next n limbs of r / t (r < t) after those in acc, and
\* the remainder left.
RECURSIVE DivLimbs(_, _, _, _)
DivLimbs(r, t, n, acc) ==
    IF n = 0 THEN [limbs |-> acc, rem |-> r]
    ELSE DivLimbs((r * Base) % t, t, n - 1, Append(acc, (r * Base) \div t))

\* A number given by limbs, most significant first, with every limb but the
\* first brought below Base by carrying into the next.
RECURSIVE Carried(_)
Carried(limbs) ==
    IF Len(limbs) = 1 THEN limbs
    ELSE LET n == Len(limbs)
             front == [SubSeq(limbs, 1, n - 1) EXCEPT
                         ![n - 1] = @ + limbs[n] \div Base]
         IN  Append(Carried(front), limbs[n] % Base)

\* ((wins as f64 / (wins + losses) as f64) * 100_f64) as i64, in IEEE-754
\* binary64 arithmetic with round-to-nearest-even:
\*   - 0 / 0 is NaN, which `as i64` turns into 0; 0 / t is 0;
\*   - the quotient is wins * 2^k / t in [1, 2), scaled by 2^-k: long division
\*     gives its leading 1 and 52 more bits, then a guard bit and a sticky
\*     remainder, on which the significand m is rounded;
\*   - the exact product 100 * m has `dropped` bits more than a significand
\*     holds, and is rounded to a multiple of 2^dropped;
\*   - the product's first limb counts units of 2^-k, and `as i64` truncates.
WinRate(wins, losses) ==
    IF wins + losses = 0 \/ wins = 0 THEN 0
    ELSE LET t == wins + losses
             k == Normalise(wins, t)
             q == DivLimbs(wins * (2 ^ k) - t, t, Limbs, <<1>>)
             last == Limbs + 1
             up == /\ 2 * q.rem >= t
                   /\ (2 * q.rem > t \/ q.limbs[last] % 2 = 1)
             m == Carried([q.limbs EXCEPT ![last] = @ + (IF up THEN 1 ELSE 0)])
             product == Carried([i \in 1..last |-> 100 * m[i]])
             dropped == BitLen(product[1]) - 1
             unit == 2 ^ dropped
             low == product[last] % unit
             keep == product[last] \div unit
             up2 == \/ 2 * low > unit
                    \/ (2 * low = unit /\ keep % 2 = 1)
             rounded == Carried([product EXCEPT
                           ![last] = (keep + (IF up2 THEN 1 ELSE 0)) * unit])
         IN  rounded[1] \div (2 ^ k)

(* --------------------- the data of a refresh cycle --------------------- *)

\* Greatest number of entries the provider returns in one cycle.
MaxEntries == 2
\* Greatest league_points of an entry.
MaxPoints == 1
\* Rows the scoreboard shows: take(10).
Limit == 10

\* A LeagueEntry: tier and rank are Options, "" standing for None.
Entry(queue, tier, rank, lp, wins, losses) ==
    [queue_type |-> queue, tier |-> tier, rank |-> rank,
     league_points |-> lp, wins |-> wins, losses |-> losses]

QueueTypes == {"RANKED_SOLO_5x5", "RANKED_FLEX_SR"}
RankedTiers == {"IRON", "GOLD", "CHALLENGER"}
Divisions == {"I", "II", "III", "IV"}

\* Tier's order is that of its discriminants, lowest tier first.
TierValue(tier) ==
    CASE tier = "UNRANKED" -> 0
      [] tier = "IRON" -> 40
      [] tier = "GOLD" -> 100
      [] tier = "CHALLENGER" -> 220

\* Division as the number it is written for.
DivisionValue(rank) ==
    CASE rank = "I" -> 1
      [] rank = "II" -> 2
      [] rank = "III" -> 3
      [] rank = "IV" -> 4

\* Tier::is_ranked.
IsRanked(tier) == tier # "UNRANKED"

\* Ord::cmp on integers.
Cmp(x, y) ==
    IF x < y THEN "Less" ELSE IF x > y THEN "Greater" ELSE "Equal"

\* Ord::cmp on Tier.
TierCmp(s, t) == Cmp(TierValue(s), TierValue(t))

\* Ord::cmp on Division: the order of the numbers reversed, I the greatest.
DivisionCmp(r, s) == Cmp(DivisionValue(s), DivisionValue(r))

\* A comparator that takes the points to decide between entries of one tier.
CompareTierThenPoints(a, b) ==
    IF a.tier = "" \/ b.tier = "" THEN "panic"
    ELSE IF TierCmp(b.tier, a.tier) # "Equal" THEN TierCmp(b.tier, a.tier)
    ELSE Cmp(b.league_points, a.league_points)

\* compare: "panic" where an unwrap meets None.
Compare(a, b) ==
    IF a.tier = "" \/ b.tier = "" THEN "panic"
    ELSE IF TierCmp(b.tier, a.tier) # "Equal" THEN TierCmp(b.tier, a.tier)
    ELSE IF a.rank = "" \/ b.rank = "" THEN "panic"
    ELSE IF DivisionCmp(b.rank, a.rank) # "Equal"
    THEN DivisionCmp(b.rank, a.rank)
    ELSE Cmp(b.league_points, a.league_points)

\* The for_each of the fetch loop over the entries from index i on: an entry
\* of the solo queue is pushed when its tier is ranked, and entry.tier.unwrap()
\* panics when it has no tier; an entry of another queue is passed over.
RECURSIVE FilterFrom(_, _, _)
FilterFrom(entries, i, acc) ==
    IF i > Len(entries) THEN [panic |-> FALSE, out |-> acc]
    ELSE LET entry == entries[i]
         IN  IF entry.queue_type # "RANKED_SOLO_5x5"
             THEN FilterFrom(entries, i + 1, acc)
             ELSE IF entry.tier = "" THEN [panic |-> TRUE, out |-> acc]
             ELSE IF IsRanked(entry.tier)
             THEN FilterFrom(entries, i + 1, Append(acc, entry))
             ELSE FilterFrom(entries, i + 1, acc)

\* x put into a sorted list before the first element it is Less than.
RECURSIVE InsertSorted(_, _)
InsertSorted(x, sorted) ==
    IF sorted = <<>> THEN <<x>>
    ELSE IF Compare(x, sorted[1]) = "Less" THEN <<x>> \o sorted
    ELSE <<sorted[1]>> \o InsertSorted(x, Tail(sorted))

\* sort_by(compare): a stable sort.
RECURSIVE SortBy(_)
SortBy(list) ==
    IF list = <<>> THEN <<>>
    ELSE InsertSorted(list[Len(list)], SortBy(SubSeq(list, 1, Len(list) - 1)))

\* compare's answers for every pair of a list.
Answers(list) ==
    [i \in 1..Len(list) |-> [j \in 1..Len(list) |-> Compare(list[i], list[j])]]

\* sort_by panics when compare does.  Two entries of one tier of which one
\* has no rank are ordered by no other comparison than one that panics, so a
\* sort that orders the list meets such a comparison if there is one.
SortPanics(list) ==
    \E i, j \in 1..Len(list) : i # j /\ Compare(list[i], list[j]) = "panic"

\* iter().take(n).
Take(list, n) == SubSeq(list, 1, IF Len(list) < n THEN Len(list) ELSE n)

\* One row of rank_content.
Row(account) ==
    [tier |-> account.tier, rank |-> account.rank,
     league_points |-> account.league_points, wins |-> account.wins,
     losses |-> account.losses, pct |-> WinRate(account.wins, account.losses)]

\* The rendering loop panics on the unwrap of an absent tier or rank.
RenderPanics(list) ==
    \E i \in 1..Len(list) : list[i].tier = "" \/ list[i].rank = ""

\* 297-306: the entries of the solo queue with a ranked tier become `accounts`.
Filter ==
    /\ stage = "fetched"
    /\ LET f == FilterFrom(fetched, 1, <<>>)
       IN  IF f.panic
           THEN stage' = "panic_filter_tier" /\ UNCHANGED accounts
           ELSE stage' = "filtered" /\ accounts' = f.out
    /\ UNCHANGED <<typed, fetched, rank_content, ordering>>
    /\ UNCHANGED <<mem_channel, mem_message, db, created, pc, ev, hmsg, reply,
                   acked, noticed, deleted, cyc>>

\* 309: accounts.sort_by(compare).
Sort ==
    /\ stage = "filtered"
    /\ ordering' = Answers(accounts)
    /\ IF SortPanics(accounts)
       THEN stage' = "panic_compare_rank" /\ UNCHANGED accounts
       ELSE stage' = "sorted" /\ accounts' = SortBy(accounts)
    /\ UNCHANGED <<typed, fetched, rank_content>>
    /\ UNCHANGED <<mem_channel, mem_message, db, created, pc, ev, hmsg, reply,
                   acked, noticed, deleted, cyc>>

\* 318-337: one row for each of the first 10 accounts.
Render ==
    /\ stage = "sorted"
    /\ IF RenderPanics(Take(accounts, Limit))
       THEN stage' = "panic_render_rank" /\ UNCHANGED rank_content
       ELSE /\ stage' = "rendered"
            /\ rank_content' = [i \in 1..Len(Take(accounts, Limit)) |->
                                  Row(accounts[i])]
    /\ UNCHANGED <<typed, fetched, accounts, ordering>>
    /\ UNCHANGED <<mem_channel, mem_message, db, created, pc, ev, hmsg, reply,
                   acked, noticed, deleted, cyc>>

NextData == Filter \/ Sort \/ Render

\* The tasks at rest over an empty store, while the data is followed.
AtRest ==
    /\ db = [k \in Keys |-> None]
    /\ mem_channel = None
    /\ mem_message = None
    /\ created = <<>>
    /\ pc = [p \in Procs |-> IF p = Sched THEN "u_guard" ELSE "idle"]
    /\ ev = [h \in Handlers |-> NoEvent]
    /\ hmsg = [h \in Handlers |-> None]
    /\ reply = [h \in Handlers |-> "none"]
    /\ acked = [h \in Handlers |-> 0]
    /\ noticed = [h \in Handlers |-> FALSE]
    /\ deleted = [h \in Handlers |-> 0]
    /\ cyc = [p \in Procs |-> NoCycle]
    /\ typed = [h \in Handlers |-> ""]
    /\ accounts = <<>>
    /\ rank_content = <<>>
    /\ ordering = <<>>
    /\ stage = "fetched"

\* Entries as the provider's records allow them: of either queue, with or
\* without a tier, with or without a rank.
AnyEntries ==
    {Entry(q, t, r, 0, 0, 0) :
       q \in QueueTypes, t \in {"", "UNRANKED", "IRON", "GOLD"},
       r \in {"", "I", "IV"}}

\* Entries of the solo queue with a ranked tier and a rank.
CompleteEntries ==
    {Entry("RANKED_SOLO_5x5", t, r, lp, 0, 0) :
       t \in RankedTiers, r \in Divisions, lp \in 0..MaxPoints}

\* As many equal complete entries as the scoreboard shows, and one more.
FullBoards ==
    {[i \in 1..n |-> Entry("RANKED_SOLO_5x5", "GOLD", "I", 0, 0, 0)] :
       n \in {Limit, Limit + 1}}

\* A cycle over any short list of entries, or over a full board.
InitRank ==
    /\ AtRest
    /\ fetched \in UNION {[1..n -> AnyEntries] : n \in 0..MaxEntries}
                   \cup FullBoards
SpecRank == InitRank /\ [][NextData]_vars

\* A cycle over three complete entries.
InitCompare ==
    /\ AtRest
    /\ fetched \in [{1, 2, 3} -> CompleteEntries]
SpecCompare == InitCompare /\ [][NextData]_vars

\* A cycle over one complete entry with any numbers of wins and losses.
InitWinRate ==
    /\ AtRest
    /\ \E w, l \in 0..MaxGames :
         fetched = <<Entry("RANKED_SOLO_5x5", "GOLD", "I", 0, w, l)>>
SpecWinRate == InitWinRate /\ [][NextData]_vars

(* ------------------------- claims about the data ----------------------- *)

\* C15: every entry that reaches the sort has both its tier and its rank, so
\* that neither compare nor the rendering loop panics on an absent one,
\* whatever entries the provider returned.
C15_SortedEntriesAreComplete ==
    /\ stage \notin {"panic_compare_rank", "panic_render_rank"}
    /\ stage \in {"filtered", "sorted", "rendered"} =>
         \A i \in 1..Len(accounts) :
           accounts[i].tier # "" /\ accounts[i].rank # ""

\* An entry of the solo queue whose tier is present and ranked.
Eligible(entry) ==
    /\ entry.queue_type = "RANKED_SOLO_5x5"
    /\ entry.tier # ""
    /\ entry.tier # "UNRANKED"

\* C16: the rows a cycle publishes are those of the fetched entries that are
\* of the solo queue with a present, ranked tier (the first 10 of them when
\* there are more), and an entry without a tier does not fail the cycle.
C16_PublishesExactlyEligible ==
    LET eligible == SelectSeq(fetched, Eligible)
        shown == {<<rank_content[i].tier, rank_content[i].rank>> :
                    i \in 1..Len(rank_content)}
        wanted == {<<eligible[i].tier, eligible[i].rank>> :
                     i \in 1..Len(eligible)}
    IN  /\ stage # "panic_filter_tier"
        /\ stage = "rendered" =>
             /\ Len(rank_content) =
                  (IF Len(eligible) < Limit THEN Len(eligible) ELSE Limit)
             /\ shown = wanted

\* C17: on entries with tier and rank, compare answers Less for the entry
\* that is to come first: the one of the higher tier, whatever the ranks and
\* points; in one tier the one of the higher division (I above IV); in one
\* tier and division the one with more points.  It answers Equal only for
\* equal tier, division and points, its answers for a pair and the swapped
\* pair are opposite, and they are transitive; the sorted list is best-first.
C17_CompareIsLexicographic ==
    stage \in {"sorted", "rendered"} =>
      /\ \A i, j \in 1..Len(fetched) :
           LET a == fetched[i]
               b == fetched[j]
               o == ordering[i][j]
           IN  /\ o \in {"Less", "Equal", "Greater"}
               /\ TierValue(a.tier) > TierValue(b.tier) => o = "Less"
               /\ (a.tier = b.tier
                   /\ DivisionValue(a.rank) < DivisionValue(b.rank)) => o = "Less"
               /\ (a.tier = b.tier /\ a.rank = b.rank
                   /\ a.league_points > b.league_points) => o = "Less"
               /\ o = "Equal" <=> (/\ a.tier = b.tier
                                   /\ a.rank = b.rank
                                   /\ a.league_points = b.league_points)
               /\ o = "Less" <=> ordering[j][i] = "Greater"
      /\ \A i, j, k \in 1..Len(fetched) :
           (ordering[i][j] # "Greater" /\ ordering[j][k] # "Greater") =>
             /\ ordering[i][k] # "Greater"
             /\ (ordering[i][j] = "Less" \/ ordering[j][k] = "Less") =>
                  ordering[i][k] = "Less"
      /\ \A i, j \in 1..Len(accounts) :
           i < j =>
             LET a == accounts[i]
                 b == accounts[j]
             IN  \/ TierValue(a.tier) > TierValue(b.tier)
                 \/ /\ a.tier = b.tier
                    /\ DivisionValue(a.rank) < DivisionValue(b.rank)
                 \/ /\ a.tier = b.tier /\ a.rank = b.rank
                    /\ a.league_points >= b.league_points

C17_Witness ==
    /\ stage = "sorted"
    /\ fetched = <<Entry("RANKED_SOLO_5x5", "GOLD", "IV", 1, 0, 0),
                   Entry("RANKED_SOLO_5x5", "IRON", "I", 1, 0, 0),
                   Entry("RANKED_SOLO_5x5", "GOLD", "I", 0, 0, 0)>>
    /\ accounts = <<fetched[3], fetched[1], fetched[2]>>
    /\ ordering[3][1] = "Less" /\ ordering[2][1] = "Greater"

\* C19: every row shows the integer part of wins * 100 / (wins + losses),
\* and an entry without games is rendered with 0% and no panic.
C19_WinRateIsIntegerPart ==
    /\ stage \in {"fetched", "filtered", "sorted", "rendered"}
    /\ stage = "rendered" =>
         \A i \in 1..Len(rank_content) :
           rank_content[i].pct =
             WinRateExact(rank_content[i].wins, rank_content[i].losses)

====
